---------------------------- MODULE Spec2Model ----------------------------
(***************************************************************************)
(* Data plane of the TCP/UDP-over-QUIC tunnel:                             *)
(*   - the TCP Session of TcpTunnel::run (two pump tasks coupled by the    *)
(*     AtomicI32 loop_count),                                              *)
(*   - the TCP ingress driver TcpTunnel::start (pending slot),             *)
(*   - the UDP ingress driver UdpTunnel::start / open_stream (session map, *)
(*     per-peer recv tasks, per-datagram send tasks).                      *)
(* Each component has its own specification over the shared variables.     *)
(***************************************************************************)
EXTENDS Integers, Sequences, FiniteSets, TLC

(***************************************************************************)
(* Bounds of the model.                                                    *)
(***************************************************************************)
\* cap on the value of loop_count at which a pump still starts an iteration
MaxEpoch == 6
\* bytes a source half delivers in one direction
MaxBytes == 3
\* capacity of a pump's buffer (buffer_size), scaled down
BufSize == 2
\* connections the local TCP server accepts
MaxConns == 3
\* failed open_bi calls of the TCP ingress driver
MaxFailures == 2
\* datagrams the local UDP server receives
MaxDgrams == 3
\* QUIC streams the UDP ingress driver opens
MaxStreams == 2
\* tcp_timeout_ms, in clock ticks (timed specification)
TimeoutTicks == 2
\* connections accepted and datagrams received while the two ingress drivers
\* run as a pair
MaxPairedConns == 1
MaxPairedDgrams == 2
\* QUIC streams the egress TCP driver accepts
MaxAccepts == 4
\* datagrams the ingress side sends on the stream of one egress UDP Session
MaxFwd == 3

\* AtomicI32: fetch_add wraps around
I32Max == 2147483647

(***************************************************************************)
(* State                                                                   *)
(***************************************************************************)
VARIABLES
    pc,             \* position of each pump task in its loop
    loop_count,     \* the shared AtomicI32
    c_start,        \* per pump: loop_count.load() of the current iteration
    c_end,          \* per pump: value returned by the last fetch_add
    result,         \* per pump: result of quic_to_tcp / tcp_to_quic
    transfer_bytes, \* per pump: the counter printed by the END log
    buffer,         \* per pump: the pooled buffer
    len_read,       \* per pump: length of the last read
    rdpos,          \* per pump: bytes consumed from the source half so far
    sink,           \* per pump: bytes delivered to the sink half
    halfClose,      \* per pump: calls of finish() / shutdown() on the sink
    eofRead,        \* per pump: the source returned end-of-stream
    exitReason,     \* per pump: why the loop was left
    sibProg,        \* per pump: sibling completed an Ok(n>0) iteration since our load
    sibActive,      \* per pump: sibling read or wrote bytes since our load
    streak,         \* per pump: consecutive timeouts survived thanks to sibling progress
    idle,           \* the environment has stopped delivering bytes in both directions
    idleTO,         \* per pump: timeout expiries since idle began
    timed,          \* the clock of tokio::time is modelled (timed specification)
    timer,          \* per pump: ticks elapsed in the operation it is waiting in
    stalled         \* pumps whose sink accepts no more bytes (flow control)

svars == <<pc, loop_count, c_start, c_end, result, transfer_bytes, buffer,
           len_read, rdpos, sink, halfClose, eofRead, exitReason,
           sibProg, sibActive, streak, idle, idleTO, timed, timer, stalled>>

VARIABLES
    drv,            \* position of TcpTunnel::start: "stopped", "loop", "open"
    pending_stream, \* the pending slot: 0 is None, else the connection held
    tcp_stream,     \* the connection start() holds while it awaits open_bi
    tcp_queue,      \* messages queued by the local TCP server (TcpMessage)
    queue_closed,   \* every sender of the queue has been dropped
    tcp_active,     \* tcp_server.set_active
    tcp_receiver,   \* who holds the receiver handle: "server" or "driver"
    accepted,       \* connections accepted by the local server so far
    quit_sent,      \* a Quit message has been queued
    taken,          \* connections received from the queue, in order
    paired,         \* connections whose open_bi succeeded, in order
    sessions,       \* connections whose two pump tasks were spawned
    lost,           \* connections dropped without pump tasks
    failures        \* open_bi failures so far

\* the driver's variables but the queue, into which the UDP driver sends Quit
dvarsNoQueue == <<drv, pending_stream, tcp_stream, queue_closed, tcp_active,
                  tcp_receiver, accepted, taken, paired, sessions, lost, failures>>

dvars == <<dvarsNoQueue, tcp_queue, quit_sent>>

VARIABLES
    udrv,           \* position of UdpTunnel::start: "init", "recv", "open_bi",
                    \* "send_start", "stopped"
    udp_queue,      \* packets queued by the local UDP server (UdpMessage::Packet)
    udp_closed,     \* the queue of the local UDP server is closed
    udp_active,     \* udp_server.set_active
    udp_receiver,   \* who holds the receiver handle: "server" or "driver"
    has_tcp_sender, \* tcp_sender is Some: a TCP ingress driver is paired
    ndgrams,        \* datagrams queued so far (the k-th has id k)
    packet,         \* the packet start() holds while open_stream awaits
    conn_closed,    \* conn.close_reason().is_some()
    stream_map,     \* the DashMap: a set of <<peer address, stream>> entries
    nstreams,       \* QUIC streams opened so far (the k-th is stream k)
    cur_stream,     \* the stream open_stream is setting up (0: none)
    speer,          \* per stream: the peer address it was opened for
    rtask,          \* per stream: its recv task: "none", "loop", "left", "gone"
    frames,         \* per stream: the frames written on the send-half, in order
    routed,         \* per stream: datagrams for which open_stream returned it
    lossy,          \* per stream: a send_raw on it has failed
    tasks,          \* the spawned per-datagram send tasks
    dropped         \* datagrams dropped because open_stream failed

uvars == <<udrv, udp_queue, udp_closed, udp_active, udp_receiver, has_tcp_sender,
           ndgrams, packet, conn_closed, stream_map, nstreams, cur_stream, speer,
           rtask, frames, routed, lossy, tasks, dropped>>

VARIABLES
    eloop,          \* position of TcpTunnel::process: "accept", "dial", "ended"
    estream,        \* the accepted QUIC stream process() holds while it dials
    naccepted,      \* QUIC streams accepted so far (the k-th is stream k)
    esessions,      \* accepted streams whose two pump tasks were spawned
    elost,          \* accepted streams dialed but dropped by run() without pumps
    efailed,        \* accepted streams whose upstream dial failed or timed out
    eend            \* the connection error that ended process(): "none" before

evars == <<eloop, estream, naccepted, esessions, elost, efailed, eend>>

VARIABLES
    gmain,          \* position of process_internal: "first", "bind", "recv",
                    \* "send", "done" (returned Ok), "bailed" (returned Err)
    gup,            \* the spawned upstream-to-tunnel task: "none", "recv",
                    \* "send", "done"
    gpeer,          \* peer_addr of the ReqUdpStart frame
    gfwd,           \* datagrams received from the tunnel so far
    gmain_exit,     \* why process_internal left: "none" while it runs
    gup_exit,       \* why the upstream-to-tunnel task left its loop
    gup_lost        \* a send_raw of the upstream-to-tunnel task has failed

gvars == <<gmain, gup, gpeer, gfwd, gmain_exit, gup_exit, gup_lost>>

\* the egress side
xvars == <<evars, gvars>>

vars == <<svars, dvars, uvars, xvars>>

(***************************************************************************)
(* TCP Session: TcpTunnel::run                                             *)
(***************************************************************************)
Pumps == {"quic_to_tcp", "tcp_to_quic"}

Sibling(p) == IF p = "quic_to_tcp" THEN "tcp_to_quic" ELSE "quic_to_tcp"

\* the i-th byte the source half of pump p yields
SrcByte(p, i) == <<p, i>>

\* the bytes pump p has read from its source half so far, in order
Consumed(p) == [i \in 1..rdpos[p] |-> SrcByte(p, i)]

IsPrefix(s, t) == Len(s) <= Len(t) /\ SubSeq(t, 1, Len(s)) = s

\* buffer_pool.alloc_and_fill(buffer_size)
AllocBuffer == [i \in 1..BufSize |-> <<"fill", 0>>]

\* loop_count.fetch_add(1, Relaxed): the new value, wrapping like an i32
WrapInc(x) == IF x = I32Max THEN -I32Max - 1 ELSE x + 1

\* a timed-out iteration leaves the loop when nothing bumped the epoch
StuckTimeoutAlways(cs, ce) == TRUE
StuckTimeoutNever(cs, ce) == FALSE
StuckTimeout(cs, ce) == cs = ce

\* the match on result: TRUE when the loop breaks
LoopBreaksEofContinues(res, cs, ce) ==
    CASE res = "Timeout" -> StuckTimeout(cs, ce)
      [] res = "Internal" -> TRUE
      [] OTHER -> FALSE
LoopBreaks(res, cs, ce) ==
    CASE res = "Timeout" -> StuckTimeout(cs, ce)
      [] res \in {"Ok0", "Internal"} -> TRUE
      [] OTHER -> FALSE

\* &buffer[..len_read]
WriteSliceWhole(buf, n) == buf
WriteSlice(buf, n) == SubSeq(buf, 1, n)

\* pump q is between its load and its fetch_add
InWindow(q) == pc[q] \in {"read", "write", "close", "fetch"}

InitSession ==
    /\ pc = [p \in Pumps |-> "load"]
    /\ loop_count = 0
    /\ c_start = [p \in Pumps |-> 0]
    /\ c_end = [p \in Pumps |-> 0]
    /\ result = [p \in Pumps |-> "None"]
    /\ transfer_bytes = [p \in Pumps |-> 0]
    /\ buffer = [p \in Pumps |-> AllocBuffer]
    /\ len_read = [p \in Pumps |-> 0]
    /\ rdpos = [p \in Pumps |-> 0]
    /\ sink = [p \in Pumps |-> <<>>]
    /\ halfClose = [p \in Pumps |-> 0]
    /\ eofRead = [p \in Pumps |-> FALSE]
    /\ exitReason = [p \in Pumps |-> "none"]
    /\ sibProg = [p \in Pumps |-> FALSE]
    /\ sibActive = [p \in Pumps |-> FALSE]
    /\ streak = [p \in Pumps |-> 0]
    /\ idle = FALSE
    /\ idleTO = [p \in Pumps |-> 0]
    /\ timer = [p \in Pumps |-> 0]
    /\ stalled = {}

\* let c_start = loop_count.load(Relaxed); then the timed read is started
LoadEpoch(p) ==
    /\ pc[p] = "load"
    /\ loop_count < MaxEpoch
    /\ c_start' = [c_start EXCEPT ![p] = loop_count]
    /\ pc' = [pc EXCEPT ![p] = "read"]
    /\ result' = [result EXCEPT ![p] = "None"]
    /\ sibProg' = [sibProg EXCEPT ![p] = FALSE]
    /\ sibActive' = [sibActive EXCEPT ![p] = FALSE]
    /\ timer' = [timer EXCEPT ![p] = 0]
    /\ UNCHANGED <<loop_count, c_end, transfer_bytes, buffer, len_read, rdpos,
                   sink, halfClose, eofRead, exitReason, streak, idle, idleTO,
                   timed>>
    /\ UNCHANGED stalled
    /\ UNCHANGED <<dvars, uvars, xvars>>

\* the read did not complete within tcp_timeout_ms: Err(TimeoutError)
ReadTimeout(p) ==
    /\ pc[p] = "read"
    /\ timed => timer[p] = TimeoutTicks
    /\ result' = [result EXCEPT ![p] = "Timeout"]
    /\ pc' = [pc EXCEPT ![p] = "fetch"]
    /\ idleTO' = [idleTO EXCEPT ![p] = IF idle THEN @ + 1 ELSE @]
    /\ UNCHANGED <<loop_count, c_start, c_end, transfer_bytes, buffer, len_read,
                   rdpos, sink, halfClose, eofRead, exitReason,
                   sibProg, sibActive, streak, idle, timed, timer>>
    /\ UNCHANGED stalled
    /\ UNCHANGED <<dvars, uvars, xvars>>

\* the read returned n > 0 bytes: the counter is bumped, write_all is started
ReadData(p, n) ==
    /\ pc[p] = "read"
    /\ ~idle
    /\ ~eofRead[p]
    /\ rdpos[p] + n <= MaxBytes
    /\ buffer' = [buffer EXCEPT ![p] =
                    [i \in 1..BufSize |->
                        IF i <= n THEN SrcByte(p, rdpos[p] + i) ELSE @[i]]]
    /\ len_read' = [len_read EXCEPT ![p] = n]
    /\ rdpos' = [rdpos EXCEPT ![p] = @ + n]
    /\ transfer_bytes' = [transfer_bytes EXCEPT ![p] = @ + n]
    /\ pc' = [pc EXCEPT ![p] = "write"]
    /\ sibActive' = [sibActive EXCEPT
                       ![Sibling(p)] = IF InWindow(Sibling(p)) THEN TRUE ELSE @]
    /\ UNCHANGED <<loop_count, c_start, c_end, result, sink, halfClose,
                   eofRead, exitReason, sibProg, streak, idle, idleTO, timed>>
    /\ timer' = [timer EXCEPT ![p] = 0]
    /\ UNCHANGED stalled
    /\ UNCHANGED <<dvars, uvars, xvars>>

\* the read returned end-of-stream: the sink is half-closed.
\* tcp_to_quic: quic_send.finish() is synchronous; quic_to_tcp: shutdown().await
ReadEof(p) ==
    /\ pc[p] = "read"
    /\ ~idle
    /\ eofRead' = [eofRead EXCEPT ![p] = TRUE]
    /\ halfClose' = [halfClose EXCEPT ![p] = @ + 1]
    /\ IF p = "tcp_to_quic"
       THEN /\ \E ok \in BOOLEAN :
                 result' = [result EXCEPT ![p] = IF ok THEN "Ok0" ELSE "Internal"]
            /\ pc' = [pc EXCEPT ![p] = "fetch"]
       ELSE /\ pc' = [pc EXCEPT ![p] = "close"]
            /\ UNCHANGED result
    /\ UNCHANGED <<loop_count, c_start, c_end, transfer_bytes, buffer, len_read,
                   rdpos, sink, exitReason, sibProg, sibActive, streak,
                   idle, idleTO, timed, timer>>
    /\ UNCHANGED stalled
    /\ UNCHANGED <<dvars, uvars, xvars>>

\* tcp_write.shutdown().await completes
ShutdownDone(p) ==
    /\ pc[p] = "close"
    /\ \E ok \in BOOLEAN :
         result' = [result EXCEPT ![p] = IF ok THEN "Ok0" ELSE "Internal"]
    /\ pc' = [pc EXCEPT ![p] = "fetch"]
    /\ UNCHANGED <<loop_count, c_start, c_end, transfer_bytes, buffer, len_read,
                   rdpos, sink, halfClose, eofRead, exitReason,
                   sibProg, sibActive, streak, idle, idleTO, timed, timer>>
    /\ UNCHANGED stalled
    /\ UNCHANGED <<dvars, uvars, xvars>>

\* the read failed: Err(InternalError)
ReadError(p) ==
    /\ pc[p] = "read"
    /\ ~idle
    /\ result' = [result EXCEPT ![p] = "Internal"]
    /\ pc' = [pc EXCEPT ![p] = "fetch"]
    /\ UNCHANGED <<loop_count, c_start, c_end, transfer_bytes, buffer, len_read,
                   rdpos, sink, halfClose, eofRead, exitReason,
                   sibProg, sibActive, streak, idle, idleTO, timed, timer>>
    /\ UNCHANGED stalled
    /\ UNCHANGED <<dvars, uvars, xvars>>

\* write_all(&buffer[..len_read]) drained the slice: Ok(len_read)
WriteAll(p) ==
    /\ pc[p] = "write"
    /\ p \notin stalled
    /\ sink' = [sink EXCEPT ![p] = @ \o WriteSlice(buffer[p], len_read[p])]
    /\ result' = [result EXCEPT ![p] = "OkN"]
    /\ pc' = [pc EXCEPT ![p] = "fetch"]
    /\ sibActive' = [sibActive EXCEPT
                       ![Sibling(p)] = IF InWindow(Sibling(p)) THEN TRUE ELSE @]
    /\ len_read' = [len_read EXCEPT ![p] = 0]
    /\ UNCHANGED <<loop_count, c_start, c_end, transfer_bytes, buffer,
                   rdpos, halfClose, eofRead, exitReason, sibProg,
                   streak, idle, idleTO, timed, timer>>
    /\ UNCHANGED stalled
    /\ UNCHANGED <<dvars, uvars, xvars>>

\* write_all failed after k < len_read bytes had gone out: Err(InternalError)
WriteFail(p, k) ==
    /\ pc[p] = "write"
    /\ p \notin stalled
    /\ k < len_read[p]
    /\ sink' = [sink EXCEPT ![p] = @ \o SubSeq(WriteSlice(buffer[p], len_read[p]), 1, k)]
    /\ result' = [result EXCEPT ![p] = "Internal"]
    /\ pc' = [pc EXCEPT ![p] = "fetch"]
    /\ sibActive' = [sibActive EXCEPT
                       ![Sibling(p)] = IF k > 0 /\ InWindow(Sibling(p)) THEN TRUE ELSE @]
    /\ len_read' = [len_read EXCEPT ![p] = 0]
    /\ UNCHANGED <<loop_count, c_start, c_end, transfer_bytes, buffer,
                   rdpos, halfClose, eofRead, exitReason, sibProg,
                   streak, idle, idleTO, timed, timer>>
    /\ UNCHANGED stalled
    /\ UNCHANGED <<dvars, uvars, xvars>>

\* let c_end = loop_count.fetch_add(1, Relaxed); match result { ... }
\* (the locals of an iteration that continues go out of scope)
FetchAdd(p) ==
    /\ pc[p] = "fetch"
    /\ loop_count' = WrapInc(loop_count)
    /\ sibProg' = [sibProg EXCEPT
                     ![Sibling(p)] = IF result[p] = "OkN" /\ InWindow(Sibling(p))
                                     THEN TRUE ELSE @]
    /\ IF LoopBreaks(result[p], c_start[p], loop_count)
       THEN /\ pc' = [pc EXCEPT ![p] = "done"]
            /\ c_end' = [c_end EXCEPT ![p] = loop_count]
            /\ exitReason' = [exitReason EXCEPT ![p] =
                                CASE result[p] = "Timeout" -> "timeout"
                                  [] result[p] = "Ok0" -> "eof"
                                  [] OTHER -> "fatal"]
            /\ UNCHANGED <<c_start, streak, sibActive>>
       ELSE /\ pc' = [pc EXCEPT ![p] = "load"]
            /\ c_start' = [c_start EXCEPT ![p] = 0]
            /\ sibActive' = [sibActive EXCEPT ![p] = FALSE]
            /\ streak' = [streak EXCEPT ![p] =
                            IF result[p] = "Timeout" /\ sibProg[p] THEN @ + 1 ELSE 0]
            /\ UNCHANGED <<c_end, exitReason>>
    /\ UNCHANGED <<result, transfer_bytes, buffer, len_read, rdpos, sink,
                   halfClose, eofRead, idle, idleTO, timed, timer>>
    /\ UNCHANGED stalled
    /\ UNCHANGED <<dvars, uvars, xvars>>

\* from now on no byte, end-of-stream or error arrives on either source half
GoIdle ==
    /\ ~idle
    /\ \A p \in Pumps : pc[p] \in {"load", "read"}
    /\ idle' = TRUE
    /\ UNCHANGED <<pc, loop_count, c_start, c_end, result, transfer_bytes, buffer,
                   len_read, rdpos, sink, halfClose, eofRead, exitReason,
                   sibProg, sibActive, streak, idleTO, timed, timer>>
    /\ UNCHANGED stalled
    /\ UNCHANGED <<dvars, uvars, xvars>>

\* pump p is suspended in an await on which time passes: its timed read, or
\* a write_all whose sink accepts nothing
Waiting(p) == pc[p] = "read" \/ (pc[p] = "write" /\ p \in stalled)

\* the clock advances by one tick for every waiting pump; steps that do not
\* wait (load, fetch_add) and expired timers of reads come first.  write_all
\* has no deadline: its wait is followed one tick beyond tcp_timeout_ms
Tick ==
    /\ timed
    /\ \A p \in Pumps : pc[p] \notin {"load", "fetch"}
    /\ \A p \in Pumps : pc[p] = "read" => timer[p] < TimeoutTicks
    /\ \A p \in Pumps : pc[p] = "write" => timer[p] <= TimeoutTicks
    /\ \E p \in Pumps : Waiting(p)
    /\ timer' = [p \in Pumps |-> IF Waiting(p) THEN timer[p] + 1 ELSE timer[p]]
    /\ UNCHANGED <<pc, loop_count, c_start, c_end, result, transfer_bytes, buffer,
                   len_read, rdpos, sink, halfClose, eofRead, exitReason,
                   sibProg, sibActive, streak, idle, idleTO, timed>>
    /\ UNCHANGED stalled
    /\ UNCHANGED <<dvars, uvars, xvars>>

\* the receiver of pump p's sink stops reading while write_all is pending:
\* from now on the sink accepts no byte
StallSink(p) ==
    /\ p \notin stalled
    /\ pc[p] = "write"
    /\ stalled' = stalled \cup {p}
    /\ UNCHANGED <<pc, loop_count, c_start, c_end, result, transfer_bytes, buffer,
                   len_read, rdpos, sink, halfClose, eofRead, exitReason,
                   sibProg, sibActive, streak, idle, idleTO, timed, timer>>
    /\ UNCHANGED <<dvars, uvars, xvars>>

NextSession ==
    \/ \E p \in Pumps : LoadEpoch(p)
    \/ \E p \in Pumps : ReadTimeout(p)
    \/ \E p \in Pumps : \E n \in 1..BufSize : ReadData(p, n)
    \/ \E p \in Pumps : ReadEof(p)
    \/ \E p \in Pumps : ShutdownDone(p)
    \/ \E p \in Pumps : ReadError(p)
    \/ \E p \in Pumps : WriteAll(p)
    \/ \E p \in Pumps : \E k \in 0..(BufSize - 1) : WriteFail(p, k)
    \/ \E p \in Pumps : FetchAdd(p)
    \/ GoIdle

(***************************************************************************)
(* TCP ingress driver: TcpTunnel::start                                    *)
(***************************************************************************)
Request(c) == [kind |-> "Request", stream |-> c]
Quit == [kind |-> "Quit", stream |-> 0]

Elems(q) == {q[i] : i \in 1..Len(q)}

InitDriver ==
    /\ drv = "stopped"
    /\ pending_stream = 0
    /\ tcp_stream = 0
    /\ tcp_queue = <<>>
    /\ queue_closed = FALSE
    /\ tcp_active = FALSE
    /\ tcp_receiver = "server"
    /\ accepted = 0
    /\ quit_sent = FALSE
    /\ taken = <<>>
    /\ paired = <<>>
    /\ sessions = {}
    /\ lost = {}
    /\ failures = 0

\* the local TCP server accepts a connection and queues TcpMessage::Request
Accept ==
    /\ ~queue_closed
    /\ accepted < MaxConns
    /\ accepted' = accepted + 1
    /\ tcp_queue' = Append(tcp_queue, Request(accepted + 1))
    /\ UNCHANGED <<drv, pending_stream, tcp_stream, queue_closed, tcp_active,
                   tcp_receiver, quit_sent, taken, paired, sessions, lost, failures>>
    /\ UNCHANGED <<svars, uvars, xvars>>

\* TcpMessage::Quit is queued by the paired UDP driver
QuitArrives ==
    /\ ~queue_closed
    /\ ~quit_sent
    /\ quit_sent' = TRUE
    /\ tcp_queue' = Append(tcp_queue, Quit)
    /\ UNCHANGED <<drv, pending_stream, tcp_stream, queue_closed, tcp_active,
                   tcp_receiver, accepted, taken, paired, sessions, lost, failures>>
    /\ UNCHANGED <<svars, uvars, xvars>>

\* the local TCP server goes away: recv() returns None once the queue is empty
CloseQueue ==
    /\ ~queue_closed
    /\ queue_closed' = TRUE
    /\ UNCHANGED <<drv, pending_stream, tcp_stream, tcp_queue, tcp_active,
                   tcp_receiver, accepted, quit_sent, taken, paired, sessions,
                   lost, failures>>
    /\ UNCHANGED <<svars, uvars, xvars>>

\* entry of start(): set_active(true); take_tcp_receiver().unwrap()
Start ==
    /\ drv = "stopped"
    /\ tcp_receiver = "server"
    /\ tcp_active' = TRUE
    /\ tcp_receiver' = "driver"
    /\ drv' = "loop"
    /\ UNCHANGED <<pending_stream, tcp_stream, tcp_queue, queue_closed, accepted,
                   quit_sent, taken, paired, sessions, lost, failures>>
    /\ UNCHANGED <<svars, uvars, xvars>>

\* match pending_stream.take(): Some(tcp_stream) is used before the queue
FromPendingAfterQueue(pend, q) == pend # 0 /\ q = <<>>
FromPending(pend, q) == pend # 0

\* the top of the loop: the pending slot, else recv() on the queue; a Quit
\* or a closed queue breaks, and start() returns
TakeStream ==
    /\ drv = "loop"
    /\ IF FromPending(pending_stream, tcp_queue)
       THEN /\ tcp_stream' = pending_stream
            /\ pending_stream' = 0
            /\ drv' = "open"
            /\ UNCHANGED <<tcp_queue, taken, tcp_active, tcp_receiver>>
       ELSE IF tcp_queue # <<>> /\ Head(tcp_queue).kind = "Request"
       THEN /\ tcp_stream' = Head(tcp_queue).stream
            /\ tcp_queue' = Tail(tcp_queue)
            /\ taken' = Append(taken, Head(tcp_queue).stream)
            /\ drv' = "open"
            /\ UNCHANGED <<pending_stream, tcp_active, tcp_receiver>>
       ELSE /\ tcp_queue # <<>> \/ queue_closed
            /\ tcp_queue' = IF tcp_queue # <<>> THEN Tail(tcp_queue) ELSE tcp_queue
            /\ tcp_receiver' = "server"
            /\ tcp_active' = FALSE
            /\ drv' = "stopped"
            /\ UNCHANGED <<pending_stream, tcp_stream, taken>>
    /\ UNCHANGED <<queue_closed, accepted, quit_sent, paired, sessions, lost,
                   failures>>
    /\ UNCHANGED <<svars, uvars, xvars>>

\* conn.open_bi() returned Ok: TcpTunnel::run(tcp_stream, quic_stream), which
\* returns before spawning the pumps when tcp_read.peer_addr() fails
OpenBiOk ==
    /\ drv = "open"
    /\ paired' = Append(paired, tcp_stream)
    /\ \E addr_ok \in BOOLEAN :
         IF addr_ok
         THEN sessions' = sessions \cup {tcp_stream} /\ UNCHANGED lost
         ELSE lost' = lost \cup {tcp_stream} /\ UNCHANGED sessions
    /\ tcp_stream' = 0
    /\ drv' = "loop"
    /\ UNCHANGED <<pending_stream, tcp_queue, queue_closed, tcp_active,
                   tcp_receiver, accepted, quit_sent, taken, failures>>
    /\ UNCHANGED <<svars, uvars, xvars>>

\* conn.open_bi() returned Err: the connection goes to the pending slot, the
\* loop breaks and start() returns
OpenBiErr ==
    /\ drv = "open"
    /\ failures < MaxFailures
    /\ failures' = failures + 1
    /\ pending_stream' = tcp_stream
    /\ tcp_stream' = 0
    /\ tcp_receiver' = "server"
    /\ tcp_active' = FALSE
    /\ drv' = "stopped"
    /\ UNCHANGED <<tcp_queue, queue_closed, accepted, quit_sent, taken, paired,
                   sessions, lost>>
    /\ UNCHANGED <<svars, uvars, xvars>>

NextDriver ==
    \/ Accept
    \/ QuitArrives
    \/ CloseQueue
    \/ Start
    \/ TakeStream
    \/ OpenBiOk
    \/ OpenBiErr

(***************************************************************************)
(* UDP ingress driver: UdpTunnel::start and UdpTunnel::open_stream         *)
(***************************************************************************)
Peers == {"peer1", "peer2"}

Streams == 1..MaxStreams

NoPacket == [addr |-> "none", id |-> 0]

StartFrame == [kind |-> "ReqUdpStart", body |-> 0]
RawFrame(d) == [kind |-> "Raw", body |-> d]

\* stream_map.get(&peer_addr): the stream of the entry, 0 for None
MapGetMiss(m, k) == 0
MapGet(m, k) ==
    IF \E e \in m : e[1] = k THEN (CHOOSE e \in m : e[1] = k)[2] ELSE 0

\* stream_map.insert(peer_addr, quic_send): replaces the entry of the key
MapInsert(m, k, v) == {e \in m : e[1] # k} \cup {<<k, v>>}

\* stream_map.remove(&peer_addr)
MapRemove(m, k) == {e \in m : e[1] # k}

\* the datagrams written on a stream as raw frames, in order
RawFrames(sid) ==
    LET raw == SelectSeq(frames[sid], LAMBDA f : f.kind = "Raw")
    IN  [i \in 1..Len(raw) |-> raw[i].body]

InitUdp ==
    /\ udrv = "init"
    /\ udp_queue = <<>>
    /\ udp_closed = FALSE
    /\ udp_active = FALSE
    /\ udp_receiver = "server"
    /\ ndgrams = 0
    /\ packet = NoPacket
    /\ conn_closed = FALSE
    /\ stream_map = {}
    /\ nstreams = 0
    /\ cur_stream = 0
    /\ speer = [x \in Streams |-> "none"]
    /\ rtask = [x \in Streams |-> "none"]
    /\ frames = [x \in Streams |-> <<>>]
    /\ routed = [x \in Streams |-> <<>>]
    /\ lossy = [x \in Streams |-> FALSE]
    /\ tasks = {}
    /\ dropped = {}

\* the local UDP server queues a datagram received from a peer
UdpArrive(a) ==
    /\ ~udp_closed
    /\ ndgrams < MaxDgrams
    /\ ndgrams' = ndgrams + 1
    /\ udp_queue' = Append(udp_queue, [addr |-> a, id |-> ndgrams + 1])
    /\ UNCHANGED <<udrv, udp_closed, udp_active, udp_receiver, has_tcp_sender,
                   packet, conn_closed, stream_map, nstreams, cur_stream, speer,
                   rtask, frames, routed, lossy, tasks>>
    /\ UNCHANGED dropped
    /\ UNCHANGED <<svars, dvars, xvars>>

\* the local UDP server goes away: recv() returns None once the queue is empty
UdpCloseQueue ==
    /\ ~udp_closed
    /\ udp_closed' = TRUE
    /\ UNCHANGED <<udrv, udp_queue, udp_active, udp_receiver, has_tcp_sender,
                   ndgrams, packet, conn_closed, stream_map, nstreams, cur_stream,
                   speer, rtask, frames, routed, lossy, tasks>>
    /\ UNCHANGED dropped
    /\ UNCHANGED <<svars, dvars, xvars>>

\* the tunnel connection is lost: close_reason() is Some from now on
CloseConn ==
    /\ ~conn_closed
    /\ conn_closed' = TRUE
    /\ UNCHANGED <<udrv, udp_queue, udp_closed, udp_active, udp_receiver,
                   has_tcp_sender, ndgrams, packet, stream_map, nstreams,
                   cur_stream, speer, rtask, frames, routed, lossy, tasks>>
    /\ UNCHANGED dropped
    /\ UNCHANGED <<svars, dvars, xvars>>

\* entry of start(): a fresh stream_map, set_active(true), take_receiver()
UdpStart ==
    /\ udrv = "init"
    /\ udp_receiver = "server"
    /\ stream_map' = {}
    /\ udp_active' = TRUE
    /\ udp_receiver' = "driver"
    /\ udrv' = "recv"
    /\ UNCHANGED <<udp_queue, udp_closed, has_tcp_sender, ndgrams, packet,
                   conn_closed, nstreams, cur_stream, speer, rtask, frames,
                   routed, lossy, tasks>>
    /\ UNCHANGED dropped
    /\ UNCHANGED <<svars, dvars, xvars>>

\* (mutant) the receiver handle is not put back
UdpExitKeepsReceiver ==
    /\ udp_active' = FALSE
    /\ udp_receiver' = udp_receiver
    /\ udrv' = "stopped"

\* after the loop: set_active(false); put_receiver(udp_receiver)
UdpExit ==
    /\ udp_active' = FALSE
    /\ udp_receiver' = "server"
    /\ udrv' = "stopped"

\* start() is invoked again by the supervisor, with its new connection: a
\* fresh stream_map, set_active(true), take_receiver().  The recv tasks of the
\* previous invocation go on with the previous map and are no longer followed
UdpRestart ==
    /\ udrv = "stopped"
    /\ udp_receiver = "server"
    /\ stream_map' = {}
    /\ rtask' = [sid \in Streams |->
                   IF rtask[sid] \in {"loop", "left"} THEN "detached" ELSE rtask[sid]]
    /\ conn_closed' = FALSE
    /\ udp_active' = TRUE
    /\ udp_receiver' = "driver"
    /\ udrv' = "recv"
    /\ UNCHANGED <<udp_queue, udp_closed, has_tcp_sender, ndgrams, packet,
                   nstreams, cur_stream, speer, frames, routed, lossy, tasks>>
    /\ UNCHANGED dropped
    /\ UNCHANGED <<svars, dvars, xvars>>

\* tokio::spawn of the task that sends one packet on the stream's send-half
SpawnSend(sid, d) ==
    /\ routed' = [routed EXCEPT ![sid] = Append(@, d)]
    /\ tasks' = tasks \cup {[stream |-> sid, dgram |-> d, st |-> "spawned"]}

\* udp_receiver.recv() returns: a packet, whose peer is looked up in the map
\* (open_stream returns the entry's send-half, or goes on to open_bi), or
\* None, which ends the loop
UdpRecv ==
    /\ udrv = "recv"
    /\ IF udp_queue # <<>>
       THEN LET pkt == Head(udp_queue)
                sid == MapGet(stream_map, pkt.addr)
            IN  /\ udp_queue' = Tail(udp_queue)
                /\ IF sid # 0
                   THEN /\ SpawnSend(sid, pkt.id)
                        /\ UNCHANGED <<udrv, packet>>
                   ELSE /\ packet' = pkt
                        /\ udrv' = "open_bi"
                        /\ UNCHANGED <<routed, tasks>>
                /\ UNCHANGED <<udp_active, udp_receiver>>
       ELSE /\ udp_closed
            /\ UdpExit
            /\ UNCHANGED <<udp_queue, packet, routed, tasks>>
    /\ UNCHANGED <<udp_closed, has_tcp_sender, ndgrams, conn_closed, stream_map,
                   nstreams, cur_stream, speer, rtask, frames, lossy>>
    /\ UNCHANGED dropped
    /\ UNCHANGED <<svars, dvars, xvars>>

\* conn.open_bi() returned Ok: a new bidi stream
UdpOpenBiOk ==
    /\ udrv = "open_bi"
    /\ ~conn_closed
    /\ nstreams < MaxStreams
    /\ nstreams' = nstreams + 1
    /\ cur_stream' = nstreams + 1
    /\ speer' = [speer EXCEPT ![nstreams + 1] = packet.addr]
    /\ udrv' = "send_start"
    /\ UNCHANGED <<udp_queue, udp_closed, udp_active, udp_receiver, has_tcp_sender,
                   ndgrams, packet, conn_closed, stream_map, rtask, frames, routed,
                   lossy, tasks>>
    /\ UNCHANGED dropped
    /\ UNCHANGED <<svars, dvars, xvars>>

\* (mutant) the close_reason() test is missing: every failure ends the loop
OpenStreamErrAlwaysQuits ==
    /\ dropped' = dropped \cup {packet.id}
    /\ packet' = NoPacket
    /\ cur_stream' = 0
    /\ UdpExit
    /\ IF has_tcp_sender
       THEN /\ tcp_queue' = IF queue_closed THEN tcp_queue
                            ELSE Append(tcp_queue, Quit)
            /\ quit_sent' = TRUE
       ELSE UNCHANGED <<tcp_queue, quit_sent>>
    /\ UNCHANGED <<udp_queue, udp_closed, has_tcp_sender, ndgrams, conn_closed,
                   stream_map, nstreams, speer, rtask, frames, routed, lossy, tasks>>
    /\ UNCHANGED <<svars, dvarsNoQueue, xvars>>

\* open_stream returned Err: the packet is dropped; when the connection is
\* closed Quit goes to the paired TCP driver and the loop breaks, else continue
OpenStreamErr ==
    /\ dropped' = dropped \cup {packet.id}
    /\ packet' = NoPacket
    /\ cur_stream' = 0
    /\ IF conn_closed
       THEN /\ UdpExit
            /\ IF has_tcp_sender
               THEN /\ tcp_queue' = IF queue_closed THEN tcp_queue
                                    ELSE Append(tcp_queue, Quit)
                    /\ quit_sent' = TRUE
               ELSE UNCHANGED <<tcp_queue, quit_sent>>
       ELSE /\ udrv' = "recv"
            /\ UNCHANGED <<udp_active, udp_receiver, tcp_queue, quit_sent>>
    /\ UNCHANGED <<udp_queue, udp_closed, has_tcp_sender, ndgrams, conn_closed,
                   stream_map, nstreams, speer, rtask, frames, routed, lossy, tasks>>
    /\ UNCHANGED <<svars, dvarsNoQueue, xvars>>

\* conn.open_bi() returned Err
UdpOpenBiErr ==
    /\ udrv = "open_bi"
    /\ OpenStreamErr

\* TunnelMessage::send(&mut quic_send, &ReqUdpStart(peer_addr)) returned Ok:
\* the frames on the send-half after it
SendReqUdpStartSkipped(fs) == fs
SendReqUdpStart(fs) == Append(fs, StartFrame)

\* TunnelMessage::send(ReqUdpStart) returned Ok: the send-half goes into the
\* map, the recv task of the stream is spawned, open_stream returns, and the
\* send task of the packet is spawned
UdpSendStartOk ==
    /\ udrv = "send_start"
    /\ ~conn_closed
    /\ frames' = [frames EXCEPT ![cur_stream] = SendReqUdpStart(@)]
    /\ stream_map' = MapInsert(stream_map, packet.addr, cur_stream)
    /\ rtask' = [rtask EXCEPT ![cur_stream] = "loop"]
    /\ SpawnSend(cur_stream, packet.id)
    /\ packet' = NoPacket
    /\ cur_stream' = 0
    /\ udrv' = "recv"
    /\ UNCHANGED <<udp_queue, udp_closed, udp_active, udp_receiver, has_tcp_sender,
                   ndgrams, conn_closed, nstreams, speer, lossy>>
    /\ UNCHANGED dropped
    /\ UNCHANGED <<svars, dvars, xvars>>

\* TunnelMessage::send(ReqUdpStart) returned Err
UdpSendStartErr ==
    /\ udrv = "send_start"
    /\ OpenStreamErr

\* a send task gets the mutex of its send-half: quic_send.lock().await
TaskLock(t) ==
    /\ t \in tasks
    /\ t.st = "spawned"
    /\ ~\E u \in tasks : u.stream = t.stream /\ u.st = "locked"
    /\ tasks' = (tasks \ {t}) \cup {[t EXCEPT !.st = "locked"]}
    /\ UNCHANGED <<udrv, udp_queue, udp_closed, udp_active, udp_receiver,
                   has_tcp_sender, ndgrams, packet, conn_closed, stream_map,
                   nstreams, cur_stream, speer, rtask, frames, routed, lossy>>
    /\ UNCHANGED dropped
    /\ UNCHANGED <<svars, dvars, xvars>>

\* (mutant) a failed send_raw takes the peer's entry out of the session map
TaskSendFailureDropsEntry(t) ==
    /\ t \in tasks
    /\ t.st = "locked"
    /\ tasks' = tasks \ {t}
    /\ \/ /\ ~conn_closed
          /\ frames' = [frames EXCEPT ![t.stream] = Append(@, RawFrame(t.dgram))]
          /\ UNCHANGED <<lossy, stream_map>>
       \/ /\ lossy' = [lossy EXCEPT ![t.stream] = TRUE]
          /\ stream_map' = MapRemove(stream_map, speer[t.stream])
          /\ UNCHANGED frames
    /\ UNCHANGED <<udrv, udp_queue, udp_closed, udp_active, udp_receiver,
                   has_tcp_sender, ndgrams, packet, conn_closed,
                   nstreams, cur_stream, speer, rtask, routed>>
    /\ UNCHANGED dropped
    /\ UNCHANGED <<svars, dvars, xvars>>

\* TunnelMessage::send_raw under the mutex: one frame, or an error that is
\* logged and swallowed; the task ends and the mutex is released
TaskSend(t) ==
    /\ t \in tasks
    /\ t.st = "locked"
    /\ tasks' = tasks \ {t}
    /\ \/ /\ ~conn_closed
          /\ frames' = [frames EXCEPT ![t.stream] = Append(@, RawFrame(t.dgram))]
          /\ UNCHANGED lossy
       \/ /\ lossy' = [lossy EXCEPT ![t.stream] = TRUE]
          /\ UNCHANGED frames
    /\ UNCHANGED <<udrv, udp_queue, udp_closed, udp_active, udp_receiver,
                   has_tcp_sender, ndgrams, packet, conn_closed, stream_map,
                   nstreams, cur_stream, speer, rtask, routed>>
    /\ UNCHANGED dropped
    /\ UNCHANGED <<svars, dvars, xvars>>

\* the recv task of a stream leaves its loop: recv_raw timed out or failed
RecvExit(sid) ==
    /\ rtask[sid] = "loop"
    /\ rtask' = [rtask EXCEPT ![sid] = "left"]
    /\ UNCHANGED <<udrv, udp_queue, udp_closed, udp_active, udp_receiver,
                   has_tcp_sender, ndgrams, packet, conn_closed, stream_map,
                   nstreams, cur_stream, speer, frames, routed, lossy, tasks>>
    /\ UNCHANGED dropped
    /\ UNCHANGED <<svars, dvars, xvars>>

\* after its loop the recv task does stream_map.remove(&peer_addr) and ends
RecvRemove(sid) ==
    /\ rtask[sid] = "left"
    /\ stream_map' = MapRemove(stream_map, speer[sid])
    /\ rtask' = [rtask EXCEPT ![sid] = "gone"]
    /\ UNCHANGED <<udrv, udp_queue, udp_closed, udp_active, udp_receiver,
                   has_tcp_sender, ndgrams, packet, conn_closed, nstreams,
                   cur_stream, speer, frames, routed, lossy, tasks>>
    /\ UNCHANGED dropped
    /\ UNCHANGED <<svars, dvars, xvars>>

NextUdp ==
    \/ \E a \in Peers : UdpArrive(a)
    \/ UdpCloseQueue
    \/ CloseConn
    \/ UdpStart
    \/ UdpRecv
    \/ UdpOpenBiOk
    \/ UdpOpenBiErr
    \/ UdpSendStartOk
    \/ UdpSendStartErr
    \/ \E t \in tasks : TaskLock(t)
    \/ \E t \in tasks : TaskSend(t)
    \/ \E sid \in Streams : RecvExit(sid)
    \/ \E sid \in Streams : RecvRemove(sid)

(***************************************************************************)
(* Egress TCP driver: TcpTunnel::process                                   *)
(***************************************************************************)
\* quinn::ConnectionError as classified by the match on accept_bi()
ConnErrors == {"TimedOut", "ApplicationClosed", "Other"}

InitProcess ==
    /\ eloop = "accept"
    /\ estream = 0
    /\ naccepted = 0
    /\ esessions = {}
    /\ elost = {}
    /\ efailed = {}
    /\ eend = "none"

\* conn.accept_bi() returned Ok: the upstream dial is started under the timeout
AcceptBiOk ==
    /\ eloop = "accept"
    /\ naccepted < MaxAccepts
    /\ naccepted' = naccepted + 1
    /\ estream' = naccepted + 1
    /\ eloop' = "dial"
    /\ UNCHANGED <<esessions, elost, efailed, eend>>
    /\ UNCHANGED <<svars, dvars, uvars, gvars>>

\* conn.accept_bi() returned Err: every arm of the match breaks
AcceptBiErr(err) ==
    /\ eloop = "accept"
    /\ eend' = err
    /\ eloop' = "ended"
    /\ UNCHANGED <<estream, naccepted, esessions, elost, efailed>>
    /\ UNCHANGED <<svars, dvars, uvars, gvars>>

\* TcpStream::connect returned Ok(Ok(tcp_stream)): Self::run(true, ..) with the
\* accepted halves, which returns before spawning when peer_addr() fails
DialOk ==
    /\ eloop = "dial"
    /\ \E addr_ok \in BOOLEAN :
         IF addr_ok
         THEN esessions' = esessions \cup {estream} /\ UNCHANGED elost
         ELSE elost' = elost \cup {estream} /\ UNCHANGED esessions
    /\ estream' = 0
    /\ eloop' = "accept"
    /\ UNCHANGED <<naccepted, efailed, eend>>
    /\ UNCHANGED <<svars, dvars, uvars, gvars>>

\* outcomes of timeout(tcp_timeout_ms, TcpStream::connect(..)) but Ok(Ok(_))
DialFailures == {"connect_err", "elapsed"}

\* (mutant) a failed dial ends the driver
DialFailedEndsDriver(kind) ==
    /\ eloop = "dial"
    /\ efailed' = efailed \cup {<<estream, kind>>}
    /\ estream' = 0
    /\ eloop' = "ended"
    /\ UNCHANGED <<naccepted, esessions, elost, eend>>
    /\ UNCHANGED <<svars, dvars, uvars, gvars>>

\* the dial returned Ok(Err(e)) or timed out, Err(_): the error is logged and
\* the loop goes on with the next accept_bi()
DialFailed(kind) ==
    /\ eloop = "dial"
    /\ efailed' = efailed \cup {<<estream, kind>>}
    /\ estream' = 0
    /\ eloop' = "accept"
    /\ UNCHANGED <<naccepted, esessions, elost, eend>>
    /\ UNCHANGED <<svars, dvars, uvars, gvars>>

NextProcess ==
    \/ AcceptBiOk
    \/ \E err \in ConnErrors : AcceptBiErr(err)
    \/ DialOk
    \/ \E kind \in DialFailures : DialFailed(kind)

(***************************************************************************)
(* Egress UDP Session: UdpTunnel::process_internal                         *)
(***************************************************************************)
InitInternal ==
    /\ gmain = "first"
    /\ gup = "none"
    /\ gpeer = "none"
    /\ gfwd = 0
    /\ gmain_exit = "none"
    /\ gup_exit = "none"
    /\ gup_lost = FALSE

\* TunnelMessage::recv returned Ok(ReqUdpStart(peer_addr))
FirstIsStart(a) ==
    /\ gmain = "first"
    /\ gpeer' = a
    /\ gmain' = "bind"
    /\ UNCHANGED <<gup, gfwd, gmain_exit, gup_exit, gup_lost>>
    /\ UNCHANGED <<svars, dvars, uvars, evars>>

\* TunnelMessage::recv returned anything else: log_and_bail!
FirstUnexpected ==
    /\ gmain = "first"
    /\ gmain' = "bailed"
    /\ gmain_exit' = "unexpected_first"
    /\ UNCHANGED <<gup, gpeer, gfwd, gup_exit, gup_lost>>
    /\ UNCHANGED <<svars, dvars, uvars, evars>>

\* bind, connect and the two try_clone succeeded: the task that forwards
\* from upstream to the tunnel is spawned with the clones, and the loop that
\* forwards from the tunnel to upstream starts
BindOk ==
    /\ gmain = "bind"
    /\ gmain' = "recv"
    /\ gup' = "recv"
    /\ UNCHANGED <<gpeer, gfwd, gmain_exit, gup_exit, gup_lost>>
    /\ UNCHANGED <<svars, dvars, uvars, evars>>

\* bind, connect or a try_clone failed: '?' returns before the spawn
BindErr ==
    /\ gmain = "bind"
    /\ gmain' = "bailed"
    /\ gmain_exit' = "bind_err"
    /\ UNCHANGED <<gup, gpeer, gfwd, gup_exit, gup_lost>>
    /\ UNCHANGED <<svars, dvars, uvars, evars>>

\* recv_raw on quic_recv returned a datagram within udp_timeout_ms
MainRecvData ==
    /\ gmain = "recv"
    /\ gfwd < MaxFwd
    /\ gfwd' = gfwd + 1
    /\ gmain' = "send"
    /\ UNCHANGED <<gup, gpeer, gmain_exit, gup_exit, gup_lost>>
    /\ UNCHANGED <<svars, dvars, uvars, evars>>

\* recv_raw failed (Ok(Err(e))) or timed out (Err(_)): break, return Ok(()),
\* which drops quic_send, quic_recv and udp_socket but not the clones
MainRecvEnds(why) ==
    /\ gmain = "recv"
    /\ gmain' = "done"
    /\ gmain_exit' = why
    /\ UNCHANGED <<gup, gpeer, gfwd, gup_exit, gup_lost>>
    /\ UNCHANGED <<svars, dvars, uvars, evars>>

\* udp_socket.send(&buf) to upstream returned Ok
MainSendOk ==
    /\ gmain = "send"
    /\ gmain' = "recv"
    /\ UNCHANGED <<gup, gpeer, gfwd, gmain_exit, gup_exit, gup_lost>>
    /\ UNCHANGED <<svars, dvars, uvars, evars>>

\* udp_socket.send(&buf) failed: '?' returns the error
MainSendErr ==
    /\ gmain = "send"
    /\ gmain' = "bailed"
    /\ gmain_exit' = "send_err"
    /\ UNCHANGED <<gup, gpeer, gfwd, gup_exit, gup_lost>>
    /\ UNCHANGED <<svars, dvars, uvars, evars>>

\* udp_socket_clone.recv returned a datagram of upstream within udp_timeout_ms;
\* the clone stays open whatever became of udp_socket
UpRecvData ==
    /\ gup = "recv"
    /\ gup' = "send"
    /\ UNCHANGED <<gmain, gpeer, gfwd, gmain_exit, gup_exit, gup_lost>>
    /\ UNCHANGED <<svars, dvars, uvars, evars>>

\* udp_socket_clone.recv failed (Ok(Err(e))) or timed out (Err(_)): break
UpRecvEnds(why) ==
    /\ gup = "recv"
    /\ gup' = "done"
    /\ gup_exit' = why
    /\ UNCHANGED <<gmain, gpeer, gfwd, gmain_exit, gup_lost>>
    /\ UNCHANGED <<svars, dvars, uvars, evars>>

\* send_raw on quic_send_clone: Ok, or an error that is logged and dropped by
\* .ok(); either way the loop goes on
UpSend(ok) ==
    /\ gup = "send"
    /\ gup' = "recv"
    /\ gup_lost' = (gup_lost \/ ~ok)
    /\ UNCHANGED <<gmain, gpeer, gfwd, gmain_exit, gup_exit>>
    /\ UNCHANGED <<svars, dvars, uvars, evars>>

LoopEnds == {"recv_err", "elapsed"}

\* the steps of process_internal itself
MainStep ==
    \/ \E a \in Peers : FirstIsStart(a)
    \/ FirstUnexpected
    \/ BindOk
    \/ BindErr
    \/ MainRecvData
    \/ \E why \in LoopEnds : MainRecvEnds(why)
    \/ MainSendOk
    \/ MainSendErr

\* the steps of the spawned upstream-to-tunnel task
UpStep ==
    \/ UpRecvData
    \/ \E why \in LoopEnds : UpRecvEnds(why)
    \/ \E ok \in BOOLEAN : UpSend(ok)

NextInternal ==
    \/ \E a \in Peers : FirstIsStart(a)
    \/ FirstUnexpected
    \/ BindOk
    \/ BindErr
    \/ MainRecvData
    \/ \E why \in LoopEnds : MainRecvEnds(why)
    \/ MainSendOk
    \/ MainSendErr
    \/ UpRecvData
    \/ \E why \in LoopEnds : UpRecvEnds(why)
    \/ \E ok \in BOOLEAN : UpSend(ok)

(***************************************************************************)
(* Specifications                                                          *)
(***************************************************************************)
InitEgress == InitProcess /\ InitInternal

Init ==
    /\ InitSession /\ timed = FALSE /\ InitDriver /\ InitUdp /\ has_tcp_sender = TRUE
    /\ InitEgress

\* the TCP Session under every interleaving of its two pump tasks
SpecSession == Init /\ [][NextSession]_vars

\* the TCP Session under a clock: both pumps wait tcp_timeout_ms per read
InitTimed ==
    /\ InitSession /\ timed = TRUE /\ InitDriver /\ InitUdp /\ has_tcp_sender = TRUE
    /\ InitEgress

NextTimed == NextSession \/ Tick

SpecTimed == InitTimed /\ [][NextTimed]_vars

\* the timed TCP Session with sinks that may stop accepting bytes
NextStalled == NextTimed \/ \E p \in Pumps : StallSink(p)

SpecStalled == InitTimed /\ [][NextStalled]_vars

\* the TCP ingress driver, invoked again and again by its supervisor
SpecDriver == Init /\ [][NextDriver]_vars

\* the UDP ingress driver with its recv tasks and send tasks, paired or not
\* with a TCP ingress driver
InitUdpDriver ==
    /\ InitSession /\ timed = FALSE /\ InitDriver /\ InitUdp
    /\ has_tcp_sender \in BOOLEAN
    /\ InitEgress

SpecUdp == InitUdpDriver /\ [][NextUdp]_vars

\* the TCP ingress driver and the UDP ingress driver paired with it, both
\* invoked again after they return; Quit comes from the UDP driver alone
PairedAccept == accepted < MaxPairedConns /\ Accept

PairedArrive(a) == ndgrams < MaxPairedDgrams /\ UdpArrive(a)

NextPaired ==
    \/ PairedAccept
    \/ CloseQueue
    \/ Start
    \/ TakeStream
    \/ OpenBiOk
    \/ OpenBiErr
    \/ \E a \in Peers : PairedArrive(a)
    \/ UdpCloseQueue
    \/ CloseConn
    \/ UdpStart
    \/ UdpRestart
    \/ UdpRecv
    \/ UdpOpenBiOk
    \/ UdpOpenBiErr
    \/ UdpSendStartOk
    \/ UdpSendStartErr
    \/ \E sid \in Streams : RecvExit(sid)
    \/ \E sid \in Streams : RecvRemove(sid)

SpecPaired == Init /\ [][NextPaired]_vars

\* the steps of the two drivers and of the recv tasks: every step of the pair
\* that is not an arrival from outside or a new invocation by the supervisor
PairedProgress ==
    \/ TakeStream
    \/ OpenBiOk
    \/ OpenBiErr
    \/ UdpRecv
    \/ UdpOpenBiOk
    \/ UdpOpenBiErr
    \/ UdpSendStartOk
    \/ UdpSendStartErr
    \/ \E sid \in Streams : RecvExit(sid)
    \/ \E sid \in Streams : RecvRemove(sid)

\* the egress TCP driver
SpecProcess == Init /\ [][NextProcess]_vars

\* one egress UDP Session; the executor runs each of its two tasks whenever
\* it can take a step
SpecInternal ==
    Init /\ [][NextInternal]_vars /\ WF_vars(MainStep) /\ WF_vars(UpStep)

(***************************************************************************)
(* Claims about the TCP Session                                            *)
(***************************************************************************)

\* C2 (Idle does not kill): a pump never leaves its loop on a Timeout whose
\* wait (from its load to its fetch_add) saw the sibling complete an Ok(n>0)
\* iteration; so it survives any number of consecutive such timeouts.
IdleDoesNotKill ==
    \A p \in Pumps :
        (pc[p] = "done" /\ exitReason[p] = "timeout") => ~sibProg[p]

\* C2 witness: a pump has survived three consecutive timeouts, the sibling
\* having completed a transfer during each wait, and both pumps still run.
IdleSurvivedThreeTimeouts ==
    \E p \in Pumps :
        /\ streak[p] >= 3
        /\ pc[p] # "done"
        /\ pc[Sibling(p)] # "done"

\* C3 (Mutual idle kills), as claimed: once both directions are idle, a pump
\* has left its loop by the time it has handled its second timeout expiry.
MutualIdleKills ==
    idle => \A p \in Pumps : idleTO[p] >= 2 => pc[p] \in {"fetch", "done"}

\* C4 (No false-positive stuck-timeout), as claimed: a pump leaves on Timeout
\* only if the sibling neither read nor wrote bytes between the pump's load and
\* its fetch_add.
NoFalsePositiveTimeout ==
    \A p \in Pumps : exitReason[p] = "timeout" => ~sibActive[p]

\* C5 (Half-close is honored): an end-of-stream read causes exactly one
\* half-close of the pump's sink, after which the pump only finishes the
\* iteration and exits: it is never again at a load, a read or a write.
HalfCloseHonored ==
    \A p \in Pumps :
        /\ halfClose[p] <= 1
        /\ eofRead[p] <=> halfClose[p] = 1
        /\ halfClose[p] >= 1 => pc[p] \in {"close", "fetch", "done"}
        /\ exitReason[p] = "eof" => halfClose[p] = 1

\* C5 witness: a pump has exited on end-of-stream and the sibling has since
\* started and completed a transferring iteration of its own.
SiblingTransfersAfterHalfClose ==
    \E p \in Pumps :
        /\ exitReason[p] = "eof"
        /\ pc[Sibling(p)] = "fetch"
        /\ result[Sibling(p)] = "OkN"
        /\ c_start[Sibling(p)] > c_end[p]

\* C6, as claimed: when a pump has terminated, the counter of its END log
\* equals the number of bytes delivered to its sink.
CounterEqualsDelivered ==
    \A p \in Pumps : pc[p] = "done" => transfer_bytes[p] = Len(sink[p])

\* C7 (byte order): the bytes written to a sink are at every instant a prefix
\* of the bytes read from the source of that direction.
ByteOrderPreserved ==
    \A p \in Pumps : IsPrefix(sink[p], Consumed(p))

\* C7 witness: one direction has delivered three bytes read in chunks of
\* different sizes while the other direction has delivered bytes too.
BothDirectionsDelivered ==
    \E p \in Pumps :
        /\ Len(sink[p]) >= 3
        /\ buffer[p][2] = SrcByte(p, 2)
        /\ buffer[p][1] = SrcByte(p, 3)
        /\ Len(sink[Sibling(p)]) >= 1


\* C14, as claimed: a pump that continues after a Timeout saw the sibling
\* complete an Ok(n>0) iteration between its load and its fetch_add.
TimeoutSurvivalMeansProgress ==
    [][\A p \in Pumps :
          (pc[p] = "fetch" /\ result[p] = "Timeout" /\ pc'[p] = "load")
              => sibProg[p]]_vars

\* C20 (lone survivor): once the sibling has exited, nobody but the surviving
\* pump advances the epoch: during a wait that began after the sibling's last
\* fetch_add the epoch keeps the value loaded, and a Timeout of such a wait
\* makes the survivor leave its loop.
SurvivorExitsOnFirstTimeout ==
    /\ [](\A p \in Pumps :
            (/\ pc[Sibling(p)] = "done"
             /\ InWindow(p)
             /\ c_start[p] > c_end[Sibling(p)]) => loop_count = c_start[p])
    /\ [][\A p \in Pumps :
            (/\ pc[Sibling(p)] = "done"
             /\ pc[p] = "fetch"
             /\ result[p] = "Timeout"
             /\ c_start[p] > c_end[Sibling(p)])
                => (pc'[p] = "done" /\ exitReason'[p] = "timeout")]_vars

\* C20 witness: a pump went on transferring after its sibling had exited on
\* end-of-stream, and then left on the Timeout of a later wait.
SurvivorTimedOutAlone ==
    \E p \in Pumps :
        /\ exitReason[Sibling(p)] = "eof"
        /\ exitReason[p] = "timeout"
        /\ c_start[p] > c_end[Sibling(p)] + 1
        /\ Len(sink[p]) >= 1

\* C13, as claimed: every I/O operation runs under the timeout, so no pump
\* is still inside one operation after more than tcp_timeout_ms have elapsed
\* in it.
NoOperationOutlivesTimeout ==
    \A p \in Pumps : timer[p] <= TimeoutTicks

(***************************************************************************)
(* Claims about the TCP ingress driver                                     *)
(***************************************************************************)

\* C1, as claimed: every connection the driver has taken is handed to a TCP
\* Session (its pump tasks are started), or is in the pending slot, or is the
\* one the running driver is offering to open_bi; none is dropped.
NoConnectionDropped ==
    \A c \in Elems(taken) :
        c \in sessions \/ c = pending_stream \/ c = tcp_stream

\* C10 (pending first): connections are paired with QUIC streams in the order
\* in which they were taken from the queue, and nothing is received from the
\* queue while a connection is pending: the pending one (or the one in hand)
\* is the last taken and every earlier one has been paired.
PendingOfferedFirst ==
    /\ IsPrefix(paired, taken)
    /\ Len(taken) <= Len(paired) + 1
    /\ pending_stream # 0 =>
          /\ tcp_stream = 0
          /\ Len(taken) = Len(paired) + 1
          /\ taken[Len(taken)] = pending_stream
    /\ tcp_stream # 0 =>
          /\ Len(taken) = Len(paired) + 1
          /\ taken[Len(taken)] = tcp_stream

\* C10 witness: after two failed invocations the connection of the pending
\* slot is offered to open_bi again while a later request waits in the queue.
PendingRetriedBeforeQueue ==
    /\ failures >= 2
    /\ paired = <<>>
    /\ drv = "open"
    /\ tcp_stream = 1
    /\ tcp_queue # <<>>
    /\ Head(tcp_queue).kind = "Request"

(***************************************************************************)
(* Claims about the UDP ingress driver                                     *)
(***************************************************************************)

\* C8 (session map): a peer address has at most one entry; the entry of a
\* stream is in the map for as long as the recv task spawned for it is in its
\* receive loop (it is removed only after that task has left the loop), and
\* every entry belongs to a recv task that has not ended.
SessionMapInvariant ==
    /\ \A e1, e2 \in stream_map : e1[1] = e2[1] => e1 = e2
    /\ \A sid \in Streams : rtask[sid] = "loop" => <<speer[sid], sid>> \in stream_map
    /\ \A e \in stream_map : rtask[e[2]] \in {"loop", "left"}

\* C8 witness: the entry of a peer was removed by its recv task, and a second
\* stream has been opened and entered for the same peer.
PeerReopened ==
    \E s1, s2 \in Streams :
        /\ s1 # s2
        /\ speer[s1] = speer[s2]
        /\ rtask[s1] = "gone"
        /\ rtask[s2] = "loop"
        /\ <<speer[s2], s2>> \in stream_map

\* C9 (frame preservation), as claimed: on a stream no write of which failed,
\* the raw frames are the datagrams routed to the stream, in their order of
\* arrival, one frame per datagram.
FramePreservation ==
    \A sid \in Streams : ~lossy[sid] => IsPrefix(RawFrames(sid), routed[sid])

\* C11 (REQ_UDP_START first): on every stream the ReqUdpStart frame is written
\* at most once and is the first frame, and a send-half that senders can reach
\* (through its map entry, a datagram routed to it or a send task holding it)
\* already carries that frame.
StartFrameFirst ==
    \A sid \in Streams :
        /\ Len(SelectSeq(frames[sid], LAMBDA f : f = StartFrame)) <= 1
        /\ frames[sid] # <<>> => frames[sid][1] = StartFrame
        /\ (\/ <<speer[sid], sid>> \in stream_map
            \/ routed[sid] # <<>>
            \/ \E t \in tasks : t.stream = sid)
           => (frames[sid] # <<>> /\ frames[sid][1] = StartFrame)

\* C11 witness: a stream carries ReqUdpStart followed by two raw datagram
\* frames, its entry still being in the map.
StartThenTwoDatagrams ==
    \E sid \in Streams :
        /\ Len(frames[sid]) >= 3
        /\ frames[sid][1] = StartFrame
        /\ frames[sid][2].kind = "Raw"
        /\ frames[sid][3].kind = "Raw"
        /\ <<speer[sid], sid>> \in stream_map

\* C16 (open_stream failure): the step in which a datagram is dropped leaves
\* the session map, the recv tasks, the send tasks and the streams' frames as
\* they were, and takes the driver back to recv() if the connection is not
\* closed and out of its loop if it is; a dropped datagram is never routed.
OpenStreamFailureDropsOnly ==
    /\ [](\A d \in dropped :
            /\ \A sid \in Streams : d \notin Elems(routed[sid])
            /\ \A t \in tasks : t.dgram # d)
    /\ [][dropped' # dropped =>
            /\ stream_map' = stream_map
            /\ rtask' = rtask
            /\ tasks' = tasks
            /\ frames' = frames
            /\ routed' = routed
            /\ udrv' = IF conn_closed THEN "stopped" ELSE "recv"]_vars

\* C16 witness: a datagram was dropped while the connection was open, and the
\* driver has gone on to route a later datagram to a stream.
DroppedThenRouted ==
    /\ ~conn_closed
    /\ \E d \in dropped : \E sid \in Streams :
          /\ routed[sid] # <<>>
          /\ routed[sid][1] > d
          /\ <<speer[sid], sid>> \in stream_map

\* C19 (send failure swallowed): the step in which a send task ends without
\* having written its frame changes neither the session map, nor any recv
\* task, nor the driver (its position, its queue, its packet, the receiver
\* handle and the active flag).
SendFailureSwallowed ==
    [][(\E t \in tasks : t.st = "locked" /\ tasks' = tasks \ {t} /\ frames' = frames)
         => /\ stream_map' = stream_map
            /\ rtask' = rtask
            /\ udrv' = udrv
            /\ udp_queue' = udp_queue
            /\ packet' = packet
            /\ udp_active' = udp_active
            /\ udp_receiver' = udp_receiver]_vars

\* C19 witness: on a stream whose connection is open a write has failed, the
\* entry and the recv task of the stream are still there, and a datagram
\* received later than the lost one has been written on the same stream.
ForwardedAfterFailedSend ==
    \E sid \in Streams : \E i, j \in 1..Len(routed[sid]) :
        /\ lossy[sid]
        /\ ~conn_closed
        /\ i < j
        /\ routed[sid][i] \notin Elems(RawFrames(sid))
        /\ \A t \in tasks : t.dgram # routed[sid][i]
        /\ routed[sid][j] \in Elems(RawFrames(sid))
        /\ <<speer[sid], sid>> \in stream_map
        /\ rtask[sid] = "loop"
        /\ udrv = "recv"

\* C21 (live session), as claimed: a datagram frame is written on a stream
\* only while the entry of the stream is in the session map: never after the
\* recv task of the stream has removed it.
NoWriteAfterRemove ==
    [][\A sid \in Streams :
          (/\ Len(frames'[sid]) > Len(frames[sid])
           /\ frames'[sid][Len(frames'[sid])].kind = "Raw")
              => (rtask[sid] # "gone" /\ <<speer[sid], sid>> \in stream_map)]_vars

(***************************************************************************)
(* Claims about the paired ingress drivers                                 *)
(***************************************************************************)

\* C12 (QUIT protocol), as claimed: when the tunnel connection is closed
\* while both drivers run, the UDP driver goes on to send Quit and exit, which
\* takes the TCP driver out of its queue receive: the pair never comes to rest
\* with the connection closed and both drivers still in their loops.
QuitFollowsClose ==
    (conn_closed /\ udrv \notin {"init", "stopped"} /\ drv # "stopped")
        => ENABLED PairedProgress

\* C15 (driver lifecycle): the local TCP server is active and its receiver
\* handle is with the driver exactly while TcpTunnel::start is in its loop,
\* and likewise for the UDP server and UdpTunnel::start; so at every entry
\* the handle is there to be taken.
ReceiverReturnedOnExit ==
    /\ (drv = "stopped") <=> (tcp_receiver = "server")
    /\ (drv = "stopped") <=> ~tcp_active
    /\ (udrv \in {"init", "stopped"}) <=> (udp_receiver = "server")
    /\ (udrv \in {"init", "stopped"}) <=> ~udp_active

\* C15 witness: the TCP driver runs again after an open_bi failure and the
\* UDP driver runs again after it had left on a closed connection.
BothDriversRunAgain ==
    /\ drv = "loop"
    /\ failures >= 1
    /\ tcp_active
    /\ tcp_receiver = "driver"
    /\ udrv = "recv"
    /\ quit_sent
    /\ dropped # {}
    /\ udp_active
    /\ udp_receiver = "driver"

(***************************************************************************)
(* Claims about the egress side                                            *)
(***************************************************************************)

\* C17 (egress dial failure): a stream whose dial failed or timed out gets no
\* TCP Session, and the failure takes the driver back to accept_bi(); the
\* driver ends only at accept_bi(), with a connection error, and once it has
\* ended it accepts nothing more.
DialFailureContinues ==
    /\ [](/\ \A f \in efailed : f[1] \notin esessions
          /\ (eloop = "ended") <=> (eend \in ConnErrors))
    /\ [][/\ efailed' # efailed => (esessions' = esessions /\ eloop' = "accept")
          /\ (eloop # "ended" /\ eloop' = "ended") => eloop = "accept"
          /\ eloop = "ended" => (eloop' = "ended" /\ naccepted' = naccepted)]_vars

\* C17 witness: the dial for one stream failed, the dial for another timed
\* out, a stream accepted after both got its TCP Session, and the driver went
\* back to accept_bi().
SessionAfterFailedDials ==
    \E i, j, k \in 1..MaxAccepts :
        /\ <<i, "connect_err">> \in efailed
        /\ <<j, "elapsed">> \in efailed
        /\ k > i /\ k > j
        /\ k \in esessions
        /\ eloop = "accept"

\* C18, as claimed: once one of the two loops of an egress UDP Session has
\* exited, the other exits as well.
BothLoopsTerminate ==
    (gmain \in {"done", "bailed"} /\ gup # "none") ~> (gup = "done")

=============================================================================
